---- MODULE Spec2Model ----
(***************************************************************************)
(* A model of three parts of bevy_entitiles:                               *)
(*   - tilemap/tile.rs     : TileBuilder and the Tile it builds            *)
(*   - render/pipeline.rs  : EntiTilesPipeline::specialize                 *)
(*   - serializing/save.rs : TilemapSaverBuilder and the save system       *)
(* Option<T> is modelled as a sequence: <<>> is None and <<x>> is Some(x). *)
(* A fixed-size array [T; N] is a sequence of length N; slot i of the      *)
(* array is element i + 1 of the sequence.                                 *)
(***************************************************************************)
EXTENDS Integers, Sequences, FiniteSets, TLC

VARIABLES
    builder,      \* Option<TileBuilder>: the tile builder value in hand
    tilemap,      \* the Tilemap handed to TileBuilder::build
    tile,         \* Option<spawned tile entity>: its Tile and AnimatedTile components
    panicked,     \* a tile builder call panicked (index out of bounds)
    last,         \* history: the last tile builder call, its arguments and its receiver
    given,        \* history: Option<last texture index given per layer by new / with_layer>
    material,     \* the material type M of EntiTilesPipeline<M>
    atlas,        \* whether the build has the "atlas" feature
    pkey,         \* Option<key of the latest specialize call>
    pdesc,        \* Option<descriptor the latest specialize call returned>
    pkeyPrev,     \* Option<key of the specialize call before it>
    pdescPrev,    \* Option<descriptor that call returned>
    sbuilder,     \* Option<TilemapSaverBuilder>: the save request builder in hand
    alive,        \* the tilemap entities that exist in the world
    pathMaps,     \* the tilemap entities that carry a PathTilemap component
    saver,        \* per tilemap entity: Option<TilemapSaver>, the save-request marker
    crashed,      \* the save system panicked: the app is gone
    ioLog,        \* history: the save_object calls of the latest save pass and what became of each
    handled,      \* history: per tilemap, Option<the request the latest save pass handled>
    despawned,    \* history: the tilemaps the latest save pass despawned
    served        \* history: per tilemap, the passes that saved it on its current request

tileVars == <<builder, tilemap, tile, panicked, last, given>>
pipeVars == <<material, atlas, pkey, pdesc, pkeyPrev, pdescPrev>>
saveVars == <<sbuilder, alive, pathMaps, saver, crashed, ioLog, handled, despawned, served>>

vars == <<tileVars, pipeVars, saveVars>>

None == <<>>
Some(x) == <<x>>
IsSome(o) == o # <<>>
Unwrap(o) == o[1]

(***************************************************************************)
(* Program constants and the bounds of the model                           *)
(***************************************************************************)
MAX_LAYER_COUNT == 4

\* texture indices handed to new / with_layer range over 0..MaxTex
MaxTex == 1
\* layer arguments handed to with_layer range over 0..MaxLayerArg
MaxLayerArg == 4
\* tilemap widths 1..MaxW, heights 1..MaxH, render chunk sizes 1..MaxC
MaxW == 10
MaxH == 5
MaxC == 4
\* tilemap entities 1..NumMaps
NumMaps == 1
\* `served` stops counting at MaxServed
MaxServed == 2

TexInputs == 0..MaxTex
LayerInputs == 0..MaxLayerArg
Colors == {<<1, 1, 1, 1>>, <<1, 0, 0, 1>>}
Vec4ONE == <<1, 1, 1, 1>>

AnimatedTile(layer) ==
    [layer |-> layer, sequence_index |-> 0, fps |-> 10, is_loop |-> TRUE]

AnimInputs == {AnimatedTile(0)}

SerializedTiles ==
    [texture_indices : {<<0, -1, -1, -1>>, <<1, 0, -1, -1>>},
     top_layer : 0..(MAX_LAYER_COUNT - 1),
     anim : {None} \cup {Some(a) : a \in AnimInputs},
     color : Colors]

\* `texture_index as i32`: a u32 above i32::MAX wraps to a negative value
AsI32(u) == IF u > 2147483647 THEN (u - 2147483647) - 2147483647 - 2 ELSE u

(***************************************************************************)
(* tilemap/tile.rs                                                         *)
(***************************************************************************)
TileBuilder_new(texture_index) ==
    [texture_indices |->
        [i \in 1..MAX_LAYER_COUNT |-> IF i = 1 THEN AsI32(texture_index) ELSE -1],
     anim |-> None,
     top_layer |-> 0,
     color |-> Vec4ONE]

from_serialized_tile(serialized_tile) ==
    [texture_indices |-> serialized_tile.texture_indices,
     top_layer |-> serialized_tile.top_layer,
     anim |-> serialized_tile.anim,
     color |-> serialized_tile.color]

with_color(self, color) == [self EXCEPT !.color = color]

with_animation(self, anim) == [self EXCEPT !.anim = Some(anim)]

\* `self.texture_indices[layer] = value`: indexing a [i32; MAX_LAYER_COUNT] at
\* layer >= MAX_LAYER_COUNT panics
StoreTextureIndex(self, layer, value) ==
    IF layer < MAX_LAYER_COUNT
    THEN [panic |-> FALSE, value |-> [self EXCEPT !.texture_indices[layer + 1] = value]]
    ELSE [panic |-> TRUE, value |-> self]

\* The result of with_layer: [panic |-> TRUE] when it panics, else the
\* returned builder in value.
with_layer(self, layer, texture_index) ==
    IF IsSome(self.anim)
    THEN [panic |-> FALSE,
          value |-> [self EXCEPT !.anim = Some([Unwrap(self.anim) EXCEPT !.layer = layer])]]
    ELSE IF layer >= MAX_LAYER_COUNT
         THEN StoreTextureIndex(self, layer, AsI32(texture_index))
         ELSE [panic |-> FALSE, value |-> self]

\* ChunksPerRow with the rounding rule dropped: the truncating quotient for every width
ChunksPerRowFloor(t) == t.size.x \div t.render_chunk_size

\* chunks per row as TileBuilder::build computes it
ChunksPerRow(t) ==
    IF t.size.x % t.render_chunk_size = 0
    THEN t.size.x \div t.render_chunk_size
    ELSE t.size.x \div t.render_chunk_size + 1

render_chunk_index(index, t) ==
    LET render_chunk_index_2d ==
            [x |-> index.x \div t.render_chunk_size, y |-> index.y \div t.render_chunk_size]
    IN  render_chunk_index_2d.y * ChunksPerRow(t) + render_chunk_index_2d.x

TileOfBuilder(self, index, t) ==
    [render_chunk_index |-> render_chunk_index(index, t),
     tilemap_id |-> t.id,
     index |-> index,
     texture_indices |-> self.texture_indices,
     top_layer |-> 0,
     color |-> self.color]

\* the entity build spawns: its Tile component and, if any, its AnimatedTile
build(self, index, t) ==
    [tile |-> TileOfBuilder(self, index, t), anim |-> self.anim]

Tilemap(w, h, c) ==
    [id |-> "map", size |-> [x |-> w, y |-> h], render_chunk_size |-> c]

InGrid(t) == [x : 0..(t.size.x - 1), y : 0..(t.size.y - 1)]

NoCall == [op |-> "none"]

InRange(layer) == layer < MAX_LAYER_COUNT

TB_New(t) ==
    /\ ~panicked
    /\ builder' = Some(TileBuilder_new(t))
    /\ last' = [op |-> "new", texture_index |-> t]
    /\ given' = Some([i \in 1..MAX_LAYER_COUNT |-> IF i = 1 THEN t ELSE -1])
    /\ UNCHANGED <<tilemap, tile, panicked, pipeVars, saveVars>>

TB_FromSerialized(s) ==
    /\ ~panicked
    /\ builder' = Some(from_serialized_tile(s))
    /\ last' = [op |-> "from_serialized_tile", serialized_tile |-> s]
    /\ given' = None
    /\ UNCHANGED <<tilemap, tile, panicked, pipeVars, saveVars>>

TB_WithColor(c) ==
    /\ ~panicked
    /\ IsSome(builder)
    /\ builder' = Some(with_color(Unwrap(builder), c))
    /\ last' = [op |-> "with_color", self |-> Unwrap(builder), color |-> c]
    /\ UNCHANGED <<tilemap, tile, panicked, given, pipeVars, saveVars>>

TB_WithAnimation(a) ==
    /\ ~panicked
    /\ IsSome(builder)
    /\ builder' = Some(with_animation(Unwrap(builder), a))
    /\ last' = [op |-> "with_animation", self |-> Unwrap(builder), anim |-> a]
    /\ given' = None
    /\ UNCHANGED <<tilemap, tile, panicked, pipeVars, saveVars>>

TB_WithLayer(layer, t) ==
    /\ ~panicked
    /\ IsSome(builder)
    /\ LET r == with_layer(Unwrap(builder), layer, t)
       IN  /\ panicked' = r.panic
           \* with_layer takes self by value: a panic drops it
           /\ builder' = IF r.panic THEN None ELSE Some(r.value)
    /\ last' = [op |-> "with_layer", self |-> Unwrap(builder),
                layer |-> layer, texture_index |-> t]
    /\ given' = IF IsSome(given) /\ InRange(layer)
                THEN Some([Unwrap(given) EXCEPT ![layer + 1] = t])
                ELSE None
    /\ UNCHANGED <<tilemap, tile, pipeVars, saveVars>>

TB_Build(index) ==
    /\ ~panicked
    /\ IsSome(builder)
    /\ tile' = Some(build(Unwrap(builder), index, tilemap))
    /\ last' = [op |-> "build", self |-> Unwrap(builder), index |-> index]
    /\ UNCHANGED <<builder, tilemap, panicked, given, pipeVars, saveVars>>


(***************************************************************************)
(* render/pipeline.rs                                                      *)
(***************************************************************************)
Materials == {"StandardTilemapMaterial", "CustomMaterial"}
MsaaInputs == {1, 2, 4, 8}
MapTypes == {<<"Square">>, <<"Isometric">>, <<"Hexagonal", 0>>, <<"Hexagonal", 1>>}

EntiTilesPipelineKey == [msaa : MsaaInputs, map_type : MapTypes, without_texture : BOOLEAN]

\* M::vertex_shader() / M::fragment_shader(): ShaderRef::Default for the
\* built-in material, a handle of its own for a custom one
ShaderOf(m, stage) ==
    IF m = "StandardTilemapMaterial" THEN <<"TILEMAP_SHADER">> ELSE <<"shader", m, stage>>

from_world(m) ==
    [view_layout |-> <<"layouts", "view_layout">>,
     uniform_buffers_layout |-> <<"layouts", "tilemap_uniforms_layout">>,
     storage_buffers_layout |-> <<"layouts", "tilemap_storage_layout">>,
     color_texture_layout |-> <<"layouts", "color_texture_layout">>,
     add_material_layout |-> <<"bind_group_layout", m>>,
     vertex_shader |-> ShaderOf(m, "vertex"),
     fragment_shader |-> ShaderOf(m, "fragment")]

ShaderDefs(key, hasAtlas) ==
    LET geometry == CASE key.map_type[1] = "Square" -> "SQUARE"
                      [] key.map_type[1] = "Isometric" -> "ISOMETRIC"
                      [] key.map_type[1] = "Hexagonal" -> "HEXAGONAL"
        d1 == <<geometry>>
        d2 == IF hasAtlas THEN Append(d1, "ATLAS") ELSE d1
    IN  IF key.without_texture THEN Append(d2, "WITHOUT_TEXTURE") ELSE d2

\* VertexFormats with the texture flag ignored: the texture attributes for every key
VertexFormatsAlways(key) ==
    <<"Float32x3", "Sint32x4", "Float32x4", "Sint32x4", "Uint32x4">>

VertexFormats(key) ==
    LET vtx_fmt == <<"Float32x3", "Sint32x4", "Float32x4">>
    IN  IF key.without_texture
        THEN vtx_fmt
        ELSE Append(Append(vtx_fmt, "Sint32x4"), "Uint32x4")

\* VertexFormat::size(), in bytes
FormatSize(f) ==
    CASE f = "Float32x3" -> 12
      [] f = "Sint32x4" -> 16
      [] f = "Float32x4" -> 16
      [] f = "Uint32x4" -> 16

RECURSIVE OffsetOf(_, _)
OffsetOf(formats, i) ==
    IF i = 1 THEN 0 ELSE OffsetOf(formats, i - 1) + FormatSize(formats[i - 1])

\* VertexBufferLayout::from_vertex_formats(VertexStepMode::Vertex, vtx_fmt)
from_vertex_formats(formats) ==
    [array_stride |-> OffsetOf(formats, Len(formats) + 1),
     step_mode |-> "Vertex",
     attributes |-> [i \in 1..Len(formats) |->
                        [format |-> formats[i],
                         offset |-> OffsetOf(formats, i),
                         shader_location |-> i - 1]]]

BindGroupLayouts(self, key, m) ==
    LET l1 == <<self.view_layout, self.uniform_buffers_layout>>
        l2 == IF ~key.without_texture
              THEN Append(Append(l1, self.color_texture_layout), self.storage_buffers_layout)
              ELSE l1
    IN  IF m # "StandardTilemapMaterial" THEN Append(l2, self.add_material_layout) ELSE l2

\* M::specialize(&mut desc): the built-in material leaves the descriptor as
\* it is; the custom material of the model overrides the blend state
MaterialSpecialize(m, desc) ==
    IF m = "StandardTilemapMaterial"
    THEN desc
    ELSE [desc EXCEPT !.fragment[1].targets[1][1].blend = Some("BlendState::REPLACE")]

specialize(self, key, m, hasAtlas) ==
    LET shader_defs == ShaderDefs(key, hasAtlas)
        vertex_layout == from_vertex_formats(VertexFormats(key))
        layout == BindGroupLayouts(self, key, m)
        desc ==
            [label |-> Some("tilemap_pipeline"),
             layout |-> layout,
             push_constant_ranges |-> <<>>,
             vertex |-> [shader |-> self.vertex_shader,
                         shader_defs |-> shader_defs,
                         entry_point |-> "tilemap_vertex",
                         buffers |-> <<vertex_layout>>],
             fragment |-> Some([shader |-> self.fragment_shader,
                                shader_defs |-> shader_defs,
                                entry_point |-> "tilemap_fragment",
                                targets |-> <<Some([format |-> "bevy_default",
                                                    blend |-> Some("BlendState::ALPHA_BLENDING"),
                                                    write_mask |-> "ColorWrites::ALL"])>>]),
             primitive |-> [topology |-> "TriangleList",
                            strip_index_format |-> None,
                            front_face |-> "Cw",
                            cull_mode |-> Some("Back"),
                            unclipped_depth |-> FALSE,
                            polygon_mode |-> "Fill",
                            conservative |-> FALSE],
             depth_stencil |-> None,
             multisample |-> [count |-> key.msaa,
                              mask |-> "!0",
                              alpha_to_coverage_enabled |-> FALSE]]
    IN  MaterialSpecialize(m, desc)

Specialize(key) ==
    /\ pkey' = Some(key)
    /\ pdesc' = Some(specialize(from_world(material), key, material, atlas))
    /\ pkeyPrev' = pkey
    /\ pdescPrev' = pdesc
    /\ UNCHANGED <<material, atlas, tileVars, saveVars>>


(***************************************************************************)
(* serializing/save.rs                                                     *)
(***************************************************************************)
Maps == 1..NumMaps
BasePath == "maps"
LayerBits == {1, 2}
SaverModes == {"Tilemap", "MapPattern"}

\* bit k of a layer mask, and the bitwise or of two masks
Bit(mask, k) == (mask \div (2 ^ k)) % 2
BitOr(a, b) ==
    LET or(k) == IF Bit(a, k) = 1 \/ Bit(b, k) = 1 THEN 2 ^ k ELSE 0
    IN  or(0) + or(1)

\* The Tilemap component of entity e, and the tile entities it holds: a
\* sparse grid, one Option<Entity> per cell.
TilemapOf(e) ==
    [name |-> <<"map", e>>,
     size |-> [x |-> 2, y |-> 1],
     tiles |-> <<Some(<<"tile", e>>), None>>]

\* The PathTilemap component of entity e, when it has one
PathTilemapOf(e) ==
    [size |-> [x |-> 2, y |-> 1], tiles |-> <<None, Some(<<"path_tile", e>>)>>]

TilemapSaverBuilder_new(path) ==
    [path |-> path,
     texture_path |-> None,
     layers |-> 0,
     remove_map_after_done |-> FALSE,
     mode |-> "Tilemap"]

SB_with_layer(self, layer) == [self EXCEPT !.layers = BitOr(self.layers, layer)]

SB_remove_map_after_done(self) == [self EXCEPT !.remove_map_after_done = TRUE]

SB_with_mode(self, mode) == [self EXCEPT !.mode = mode]

\* the TilemapSaver component TilemapSaverBuilder::build inserts
TilemapSaver(self) ==
    [path |-> self.path,
     texture_path |-> self.texture_path,
     layers |-> self.layers,
     remove_map_after_done |-> self.remove_map_after_done,
     mode |-> self.mode]

\* What can happen to one save_object call: whether create_dir_all,
\* File::create, File::open and write succeed. A handle from File::open is
\* read-only, so a write to it fails.
IoOutcomes ==
    {[dir |-> TRUE, create |-> TRUE, open |-> TRUE, write |-> TRUE],
     [dir |-> TRUE, create |-> TRUE, open |-> TRUE, write |-> FALSE],
     [dir |-> TRUE, create |-> FALSE, open |-> TRUE, write |-> FALSE],
     [dir |-> FALSE, create |-> FALSE, open |-> FALSE, write |-> FALSE]}

\* save_object(path, file_name, object) under outcome io:
\*   File::create(p).unwrap_or(File::open(p).unwrap()).write(bytes)
\* unwrap_or takes its argument by value, so File::open(p).unwrap() runs
\* and panics on failure whether or not File::create succeeded.
save_object(call, io) ==
    LET full == call.path \o call.file_name
    IN  IF ~io.open
        THEN [path |-> full, object |-> call.object, created |-> io.create,
              result |-> "panic"]
        ELSE IF io.create /\ io.write
             THEN [path |-> full, object |-> call.object, created |-> TRUE,
                   result |-> "written"]
             ELSE [path |-> full, object |-> call.object, created |-> io.create,
                   result |-> "failed"]

\* tilemap.tiles mapped through tiles_query.get(tile).cloned().unwrap().into()
SerializedTilesOf(t) ==
    [i \in 1..Len(t.tiles) |->
        IF IsSome(t.tiles[i]) THEN Some(<<"SerializedTile", Unwrap(t.tiles[i])>>) ELSE None]

SerializedPathTilemapOf(pt) ==
    [size |-> pt.size,
     tiles |-> [i \in 1..Len(pt.tiles) |->
                  IF IsSome(pt.tiles[i])
                  THEN Some(<<"SerializedPathTile", Unwrap(pt.tiles[i])>>)
                  ELSE None]]

\* format!("{}.ron", tilemap.name)
PatternFileName(t) == t.name \o <<".ron">>

\* `saver.layers & 1 != 0`
SavesColor(s) == Bit(s.layers, 0) # 0

\* `saver.layers & (1 << 1) != 0` and the tilemap has a PathTilemap
SavesPath(e, s, withPath) == Bit(s.layers, 1) # 0 /\ e \in withPath

\* The save_object calls one iteration of save's loop makes for tilemap e,
\* in order: each is the directory, the file name and the object written.
SaveCalls(e, s, withPath) ==
    LET t == TilemapOf(e)
        map_path == <<s.path, "\\">> \o t.name \o <<"\\">>
        meta == IF s.mode = "Tilemap"
                THEN <<[path |-> map_path, file_name |-> <<"TILEMAP_META">>,
                        object |-> <<"SerializedTilemap", e, s.texture_path>>]>>
                ELSE <<>>
        serialized_tiles == SerializedTilesOf(t)
        p1 == [label |-> None, size |-> t.size, tiles |-> <<>>, path_tiles |-> None]
        color == IF SavesColor(s) /\ s.mode = "Tilemap"
                 THEN <<[path |-> map_path, file_name |-> <<"TILES">>,
                         object |-> serialized_tiles]>>
                 ELSE <<>>
        p2 == IF SavesColor(s) /\ s.mode = "MapPattern"
              THEN [p1 EXCEPT !.tiles = serialized_tiles]
              ELSE p1
        serialized_path_map == SerializedPathTilemapOf(PathTilemapOf(e))
        algorithm == IF SavesPath(e, s, withPath) /\ s.mode = "Tilemap"
                     THEN <<[path |-> map_path, file_name |-> <<"PATH_TILES">>,
                             object |-> serialized_path_map]>>
                     ELSE <<>>
        p3 == IF SavesPath(e, s, withPath) /\ s.mode = "MapPattern"
              THEN [p2 EXCEPT !.path_tiles = Some(serialized_path_map.tiles)]
              ELSE p2
        pattern == IF s.mode = "MapPattern"
                   THEN <<[path |-> <<s.path, "\\">>, file_name |-> PatternFileName(t),
                           object |-> p3]>>
                   ELSE <<>>
    IN  meta \o color \o algorithm \o pattern

\* SaveCommands with the final remove left out
SaveCommandsNoRemove(e, s) ==
    IF s.remove_map_after_done THEN <<[cmd |-> "despawn", entity |-> e]>> ELSE <<>>

\* the commands one iteration of save's loop queues for tilemap e
SaveCommands(e, s) ==
    (IF s.remove_map_after_done THEN <<[cmd |-> "despawn", entity |-> e]>> ELSE <<>>)
    \o <<[cmd |-> "remove::<TilemapSaver>", entity |-> e]>>

\* The world after the queued commands are applied in order. A command on
\* an entity that no longer exists does nothing.
RECURSIVE ApplyCommands(_, _)
ApplyCommands(w, cmds) ==
    IF cmds = <<>> THEN w
    ELSE LET c == Head(cmds)
             w2 == IF c.entity \notin w.alive THEN w
                   ELSE IF c.cmd = "despawn"
                        THEN [alive |-> w.alive \ {c.entity},
                              saver |-> [w.saver EXCEPT ![c.entity] = None]]
                        ELSE [w EXCEPT !.saver[c.entity] = None]
         IN  ApplyCommands(w2, Tail(cmds))

\* the tilemaps_query of save: the tilemap entities with a TilemapSaver
Requested == {e \in alive : IsSome(saver[e])}

RECURSIVE RunCalls(_, _, _, _)
\* the calls for tilemap e from call i on; stops at the first panic
RunCalls(e, calls, i, io) ==
    IF i > Len(calls) THEN <<>>
    ELSE LET r == save_object(calls[i], io[<<e, i>>])
             entry == [entity |-> e, path |-> r.path, object |-> r.object,
                       created |-> r.created, result |-> r.result]
         IN  IF r.result = "panic" THEN <<entry>>
             ELSE <<entry>> \o RunCalls(e, calls, i + 1, io)

Panics(log) == \E i \in 1..Len(log) : log[i].result = "panic"

RECURSIVE RunSave(_, _, _)
\* save's loop over the entities of todo in ascending order:
\* [log, cmds, panic]
RunSave(todo, io, acc) ==
    IF todo = {} \/ acc.panic THEN acc
    ELSE LET e == CHOOSE x \in todo : \A y \in todo : x <= y
             s == Unwrap(saver[e])
             log == RunCalls(e, SaveCalls(e, s, pathMaps), 1, io)
         IN  RunSave(todo \ {e}, io,
                     [log |-> acc.log \o log,
                      cmds |-> acc.cmds \o SaveCommands(e, s),
                      panic |-> Panics(log)])

IoSlots ==
    UNION {{<<e, i>> : i \in 1..Len(SaveCalls(e, Unwrap(saver[e]), pathMaps))} :
             e \in Requested}

\* The history of the latest save pass is kept until the next request is begun.
SB_New ==
    /\ ~crashed
    /\ sbuilder' = Some(TilemapSaverBuilder_new(BasePath))
    /\ ioLog' = <<>>
    /\ handled' = [e \in Maps |-> None]
    /\ despawned' = {}
    /\ UNCHANGED <<alive, pathMaps, saver, crashed, served>>
    /\ UNCHANGED <<tileVars, pipeVars>>

SB_WithLayer(layer) ==
    /\ ~crashed
    /\ IsSome(sbuilder)
    /\ sbuilder' = Some(SB_with_layer(Unwrap(sbuilder), layer))
    /\ UNCHANGED <<alive, pathMaps, saver, crashed, ioLog, handled, despawned, served>>
    /\ UNCHANGED <<tileVars, pipeVars>>

SB_RemoveMapAfterDone ==
    /\ ~crashed
    /\ IsSome(sbuilder)
    /\ sbuilder' = Some(SB_remove_map_after_done(Unwrap(sbuilder)))
    /\ UNCHANGED <<alive, pathMaps, saver, crashed, ioLog, handled, despawned, served>>
    /\ UNCHANGED <<tileVars, pipeVars>>

SB_WithMode(mode) ==
    /\ ~crashed
    /\ IsSome(sbuilder)
    /\ sbuilder' = Some(SB_with_mode(Unwrap(sbuilder), mode))
    /\ UNCHANGED <<alive, pathMaps, saver, crashed, ioLog, handled, despawned, served>>
    /\ UNCHANGED <<tileVars, pipeVars>>

\* TilemapSaverBuilder::build(commands, target), with the insert applied
SB_Build(target) ==
    /\ ~crashed
    /\ IsSome(sbuilder)
    /\ target \in alive
    /\ saver' = [saver EXCEPT ![target] = Some(TilemapSaver(Unwrap(sbuilder)))]
    /\ sbuilder' = None
    /\ served' = [served EXCEPT ![target] = 0]
    /\ UNCHANGED <<alive, pathMaps, crashed, ioLog, handled, despawned>>
    /\ UNCHANGED <<tileVars, pipeVars>>

\* One run of the save system, with its commands applied after it. A
\* TilemapSaverBuilder is a temporary of the system that makes the request,
\* so the save system runs with no builder in hand.
Save ==
    /\ ~crashed
    /\ sbuilder = None
    /\ Requested # {}
    /\ \E r \in {RunSave(Requested, io, [log |-> <<>>, cmds |-> <<>>, panic |-> FALSE]) :
                    io \in [IoSlots -> IoOutcomes]} :
         \* a panic ends the app before the queued commands are applied
         \E w \in {IF r.panic THEN [alive |-> alive, saver |-> saver]
                   ELSE ApplyCommands([alive |-> alive, saver |-> saver], r.cmds)} :
            LET touched == {r.log[i].entity : i \in 1..Len(r.log)}
            IN  /\ ioLog' = r.log
                /\ handled' = [e \in Maps |-> IF e \in touched THEN saver[e] ELSE None]
                /\ crashed' = r.panic
                /\ alive' = w.alive
                /\ saver' = w.saver
                /\ despawned' = alive \ w.alive
                /\ served' = [e \in Maps |->
                                IF e \in touched /\ served[e] < MaxServed
                                THEN served[e] + 1 ELSE served[e]]
    /\ UNCHANGED <<sbuilder, pathMaps>>
    /\ UNCHANGED <<tileVars, pipeVars>>

InitSaveIdle ==
    /\ sbuilder = None
    /\ alive = Maps
    /\ pathMaps = {}
    /\ saver = [e \in Maps |-> None]
    /\ crashed = FALSE
    /\ ioLog = <<>>
    /\ handled = [e \in Maps |-> None]
    /\ despawned = {}
    /\ served = [e \in Maps |-> 0]

(***************************************************************************)
(* SpecPipe: specialize called with any keys, for each material type and   *)
(* feature set                                                             *)
(***************************************************************************)
InitPipeIdle ==
    /\ material = "StandardTilemapMaterial"
    /\ atlas = FALSE
    /\ pkey = None
    /\ pdesc = None
    /\ pkeyPrev = None
    /\ pdescPrev = None

InitTileIdle ==
    /\ builder = None
    /\ tilemap = Tilemap(1, 1, 1)
    /\ tile = None
    /\ panicked = FALSE
    /\ last = NoCall
    /\ given = None

InitPipe ==
    /\ material \in Materials
    /\ atlas \in BOOLEAN
    /\ pkey = None
    /\ pdesc = None
    /\ pkeyPrev = None
    /\ pdescPrev = None
    /\ InitTileIdle
    /\ InitSaveIdle

NextPipe == \E key \in EntiTilesPipelineKey : Specialize(key)

SpecPipe == InitPipe /\ [][NextPipe]_vars

(***************************************************************************)
(* SpecTile: the tile builder's calls in any order, on a small tilemap     *)
(***************************************************************************)
InitTile ==
    /\ InitTileIdle
    /\ InitPipeIdle
    /\ InitSaveIdle

NextTile ==
    \/ \E t \in TexInputs : TB_New(t)
    \/ \E s \in SerializedTiles : TB_FromSerialized(s)
    \/ \E c \in Colors : TB_WithColor(c)
    \/ \E a \in AnimInputs : TB_WithAnimation(a)
    \/ \E layer \in LayerInputs, t \in TexInputs : TB_WithLayer(layer, t)
    \/ \E index \in InGrid(tilemap) : TB_Build(index)

SpecTile == InitTile /\ [][NextTile]_vars

(***************************************************************************)
(* SpecChunk: build applied to every tile coordinate of every tilemap      *)
(* within the bounds                                                       *)
(***************************************************************************)
InitChunk ==
    /\ \E t \in TexInputs : builder = Some(TileBuilder_new(t))
    /\ \E w \in 1..MaxW, h \in 1..MaxH, c \in 1..MaxC : tilemap = Tilemap(w, h, c)
    /\ tile = None
    /\ panicked = FALSE
    /\ last = NoCall
    /\ given = None
    /\ InitPipeIdle
    /\ InitSaveIdle

NextChunk == \E index \in InGrid(tilemap) : TB_Build(index)

SpecChunk == InitChunk /\ [][NextChunk]_vars

(***************************************************************************)
(* Spec: save requests built and attached, and the save system run, in any *)
(* order                                                                   *)
(***************************************************************************)
Init ==
    /\ sbuilder = None
    /\ alive = Maps
    /\ pathMaps \in SUBSET Maps
    /\ saver = [e \in Maps |-> None]
    /\ crashed = FALSE
    /\ ioLog = <<>>
    /\ handled = [e \in Maps |-> None]
    /\ despawned = {}
    /\ served = [e \in Maps |-> 0]
    /\ InitTileIdle
    /\ InitPipeIdle

Next ==
    \/ SB_New
    \/ \E layer \in LayerBits : SB_WithLayer(layer)
    \/ SB_RemoveMapAfterDone
    \/ \E mode \in SaverModes : SB_WithMode(mode)
    \/ \E target \in Maps : SB_Build(target)
    \/ Save

Spec == Init /\ [][Next]_vars

(***************************************************************************)
(* Properties                                                              *)
(***************************************************************************)
Range(q) == {q[i] : i \in 1..Len(q)}

\* C1: the render_chunk_index build stores for the tile at (x, y) of a map of
\* width W and chunk size C is (y div C) * P + (x div C), with P = W div C
\* when C divides W and W div C + 1 otherwise; for W = 10, C = 4 the row
\* stride is 3 and the tile at (9, 0) gets chunk id 2.
C1_ChunkIndex ==
    IsSome(tile) =>
        LET t == Unwrap(tile).tile
            W == tilemap.size.x
            C == tilemap.render_chunk_size
            P == IF W % C = 0 THEN W \div C ELSE W \div C + 1
        IN  /\ t.render_chunk_index = (t.index.y \div C) * P + (t.index.x \div C)
            /\ (W = 10 /\ C = 4) =>
                  /\ t.render_chunk_index = (t.index.y \div 4) * 3 + (t.index.x \div 4)
                  /\ (t.index = [x |-> 9, y |-> 0] => t.render_chunk_index = 2)

C1_Witness ==
    /\ IsSome(tile)
    /\ tilemap.size.x = 10
    /\ tilemap.render_chunk_size = 4
    /\ Unwrap(tile).tile.index = [x |-> 9, y |-> 0]
    /\ Unwrap(tile).tile.render_chunk_index = 2

\* the save_object calls the latest pass made for tilemap e
CallsFor(e) == SelectSeq(ioLog, LAMBDA c : c.entity = e)

\* the latest pass handled tilemap e's request and every write for it succeeded
SavedCleanly(e) ==
    /\ IsSome(handled[e])
    /\ ~crashed
    /\ \A c \in Range(CallsFor(e)) : c.result = "written"

\* C2: every request the save pass handled, the one built with no with_layer
\* call included, had its tile layer emitted: the tiles file in Tilemap mode,
\* a populated pattern.tiles sequence in MapPattern mode.
C2_TileLayerSavedByDefault ==
    \A e \in Maps :
        SavedCleanly(e) =>
            LET s == Unwrap(handled[e])
                t == TilemapOf(e)
            IN  \E c \in Range(CallsFor(e)) :
                    IF s.mode = "Tilemap"
                    THEN c.path = <<s.path, "\\">> \o t.name \o <<"\\", "TILES">>
                    ELSE Len(c.object.tiles) = Len(t.tiles)

\* C3: after a save pass that handled a tilemap's request, the tilemap no
\* longer carries the marker, whatever the request's mode, layers and
\* remove_map_after_done; one request is served by exactly one pass.
C3_MarkerCleared ==
    \A e \in Maps :
        /\ served[e] <= 1
        /\ (IsSome(handled[e]) /\ ~crashed) => (saver[e] = None /\ served[e] = 1)

C3_Witness ==
    \E e \in Maps :
        /\ IsSome(handled[e])
        /\ ~Unwrap(handled[e]).remove_map_after_done
        /\ ~crashed
        /\ e \in alive
        /\ saver[e] = None
        /\ served[e] = 1

\* C4: a tilemap the save pass destroyed had every one of its writes succeed.
C4_DestroyedOnlyAfterSuccess ==
    \A e \in despawned :
        \A c \in Range(CallsFor(e)) : c.result = "written"

\* C5: with_layer on a builder that has an animation, or with
\* layer >= MAX_LAYER_COUNT, does not fail and returns the builder unchanged,
\* the animation's target layer included.
C5_WithLayerNoOp ==
    (last.op = "with_layer"
        /\ (IsSome(last.self.anim) \/ last.layer >= MAX_LAYER_COUNT)) =>
        (~panicked /\ builder = Some(last.self))

\* the two keys differ in the texture flag and in nothing else
OnlyTextureDiffers(k1, k2) ==
    /\ k1.msaa = k2.msaa
    /\ k1.map_type = k2.map_type
    /\ k1.without_texture # k2.without_texture

\* the descriptor with its vertex layout, bind-group layouts and shader
\* defines blanked: all that a pair of keys differing in the texture flag
\* must agree on
FixedPart(d) ==
    [d EXCEPT !.layout = <<>>,
              !.vertex.shader_defs = <<>>,
              !.vertex.buffers = <<[step_mode |-> d.vertex.buffers[1].step_mode]>>,
              !.fragment[1].shader_defs = <<>>]

TexturePairHolds(T, U) ==
    LET ta == T.vertex.buffers[1].attributes
        ua == U.vertex.buffers[1].attributes
        self == from_world(material)
    IN  /\ Len(T.vertex.buffers) = 1 /\ Len(U.vertex.buffers) = 1
        /\ Len(ua) = 3 /\ Len(ta) = 5
        /\ ua = SubSeq(ta, 1, 3)
        /\ <<ua[1].format, ua[2].format, ua[3].format>>
              = <<"Float32x3", "Sint32x4", "Float32x4">>
        /\ <<ta[4].format, ta[5].format>> = <<"Sint32x4", "Uint32x4">>
        /\ U.layout = SelectSeq(T.layout,
                        LAMBDA l : l \notin {self.color_texture_layout,
                                             self.storage_buffers_layout})
        /\ Len(T.layout) = Len(U.layout) + 2
        /\ {self.view_layout, self.uniform_buffers_layout}
              \subseteq (Range(T.layout) \cap Range(U.layout))
        /\ "WITHOUT_TEXTURE" \notin Range(T.vertex.shader_defs)
        /\ U.vertex.shader_defs = Append(T.vertex.shader_defs, "WITHOUT_TEXTURE")
        /\ U.fragment[1].shader_defs = Append(T.fragment[1].shader_defs, "WITHOUT_TEXTURE")
        /\ T.vertex.shader_defs[1] = U.vertex.shader_defs[1]
        /\ FixedPart(T) = FixedPart(U)

\* C6: two descriptors whose keys differ only in the texture flag differ in
\* exactly the two trailing vertex attributes, the color-texture and storage
\* bind-group layouts and the WITHOUT_TEXTURE define; two calls with the same
\* key give equal descriptors.
C6_TextureFlagDelta ==
    (IsSome(pkey) /\ IsSome(pkeyPrev)) =>
        LET k1 == Unwrap(pkeyPrev)
            k2 == Unwrap(pkey)
            d1 == Unwrap(pdescPrev)
            d2 == Unwrap(pdesc)
        IN  /\ (k1 = k2 => d1 = d2)
            /\ OnlyTextureDiffers(k1, k2) =>
                  IF k1.without_texture
                  THEN TexturePairHolds(d2, d1)
                  ELSE TexturePairHolds(d1, d2)

C6_Witness ==
    /\ IsSome(pkey) /\ IsSome(pkeyPrev)
    /\ OnlyTextureDiffers(Unwrap(pkeyPrev), Unwrap(pkey))
    /\ Unwrap(pkey).without_texture
    /\ material = "CustomMaterial"
    /\ Len(Unwrap(pdesc).vertex.buffers[1].attributes) = 3
    /\ Len(Unwrap(pdescPrev).vertex.buffers[1].attributes) = 5

\* C7: in every descriptor each bind-group layout sits at its group index:
\* view 0, uniforms 1, color texture 2 and storage 3 when textured, and the
\* material layout, present exactly for a non-default material, at 4.
C7_LayoutAtGroupIndex ==
    IsSome(pdesc) =>
        LET L == Unwrap(pdesc).layout
            k == Unwrap(pkey)
            self == from_world(material)
            \* the layout at 0-based group index g
            At(g, l) == Len(L) >= g + 1 /\ L[g + 1] = l
        IN  /\ At(0, self.view_layout)
            /\ At(1, self.uniform_buffers_layout)
            /\ ~k.without_texture =>
                  (At(2, self.color_texture_layout) /\ At(3, self.storage_buffers_layout))
            /\ k.without_texture =>
                  {self.color_texture_layout, self.storage_buffers_layout} \cap Range(L) = {}
            /\ (self.add_material_layout \in Range(L)) <=> (material # "StandardTilemapMaterial")
            /\ (material # "StandardTilemapMaterial") => At(4, self.add_material_layout)

\* the name the pattern file is documented to have
ExpectedPatternFileName(t) == t.name \o <<".pattern">>

\* C8: in MapPattern mode the pass writes exactly one file for the tilemap,
\* <base path>\<tilemap name>.pattern, and no metadata, tiles or path_tiles
\* file.
C8_PatternModeOneFile ==
    \A e \in Maps :
        (SavedCleanly(e) /\ Unwrap(handled[e]).mode = "MapPattern") =>
            LET s == Unwrap(handled[e])
                calls == CallsFor(e)
            IN  /\ Len(calls) = 1
                /\ calls[1].path = <<s.path, "\\">> \o ExpectedPatternFileName(TilemapOf(e))

\* C9: with_layer on a builder without animation, with layer < MAX_LAYER_COUNT,
\* sets texture_indices[layer] to texture_index and changes nothing else; after
\* new / with_color / in-range with_layer calls the builder's texture_indices
\* are the last values given per layer.
C9_WithLayerSets ==
    /\ (last.op = "with_layer" /\ ~IsSome(last.self.anim) /\ last.layer < MAX_LAYER_COUNT) =>
          /\ ~panicked
          /\ builder =
                Some([last.self EXCEPT !.texture_indices[last.layer + 1] = last.texture_index])
    /\ (IsSome(given) /\ IsSome(builder)) => Unwrap(builder).texture_indices = Unwrap(given)

\* C10: build copies the builder's top_layer, texture_indices, color and
\* animation into the tile, so the tile built from from_serialized_tile(s)
\* has s's texture_indices, top_layer and color, and an animation exactly
\* when s has one.
C10_BuildCopiesBuilder ==
    last.op = "build" =>
        LET b == last.self
            e == Unwrap(tile)
        IN  /\ e.tile.texture_indices = b.texture_indices
            /\ e.tile.top_layer = b.top_layer
            /\ e.tile.color = b.color
            /\ e.anim = b.anim
            /\ \A s \in SerializedTiles :
                  b = from_serialized_tile(s) =>
                      /\ e.tile.texture_indices = s.texture_indices
                      /\ e.tile.top_layer = s.top_layer
                      /\ e.tile.color = s.color
                      /\ IsSome(e.anim) <=> IsSome(s.anim)

====
